---------------------------- MODULE Spec2Model ----------------------------
(***************************************************************************)
(* Presence Synchronization Engine of AMDP (Apple Music -> Discord Rich    *)
(* Presence): Track Poller, Synchronization Controller, Artwork Resolver   *)
(* and Presence Session.                                                   *)
(*                                                                         *)
(* The Rust backend (src-tauri/) is not among the repository files at hand *)
(* (only the TypeScript front end and the documents are); its components   *)
(* are modelled from the design documents: docs/apple-music-rpc-devplan.md *)
(* where the plan fixes the behaviour, and the specification's sections 3  *)
(* to 5 for the rest.                                                      *)
(*                                                                         *)
(* Time is counted in units of 1/SubSec second, so that sub-second         *)
(* positions exist.  Strings that the program transforms (artist, album)   *)
(* are sequences of one-character strings.                                 *)
(***************************************************************************)
EXTENDS Integers, Sequences, FiniteSets, TLC

VARIABLES
    now,          \* wall clock, in units
    enabled,      \* the enable/disable toggle
    idleBehavior, \* configuration: "clear" or "paused"
    outstanding,  \* Track Poller: Snapshot Source calls not yet returned
    lastSnap,     \* Track Poller: last known snapshot
    ctl,          \* Controller: PresenceState [state, snap, art]
    awaiting,     \* Controller: snapshot whose artwork is being resolved
    mem,          \* Resolver: memory tier, least recently used first
    disk,         \* Resolver: disk tier, key -> entry or NoEntry
    tokens,       \* Resolver: RateBudget
    flying,       \* Resolver: key -> external lookups in flight
    waitingTok,   \* Resolver: keys whose lookup waits for a rate token
    recency,      \* observer: keys in order of last use, most recent last
    status,       \* Session: connectivity status
    ready,        \* Session: ready frame received on this connection
    lastFp,       \* SessionConnection: last-activity-sent fingerprint
    backoff,      \* SessionConnection: delay before the next attempt, seconds
    attempt,      \* observer: number of the reconnect attempt being waited for
    pending,      \* Session: frames submitted while not ready
    wire,         \* observer: the last MaxWire presence frames sent
    tx,           \* observer: the frames the last step put on the channel
    answer,       \* observer: what resolve returned in the last step, if it did
    uiTrack,      \* front end: payload of the last track-changed event
    uiStatus,     \* front end: the connectivity status on display
    settings      \* settings window: form, save timer, timers pending, saves

vars == <<now, enabled, idleBehavior, outstanding, lastSnap, ctl, awaiting,
          mem, disk, tokens, flying, waitingTok, recency,
          status, ready, lastFp, backoff, attempt, pending, wire, tx,
          answer, uiTrack, uiStatus, settings>>

pollerVars   == <<outstanding, lastSnap>>
ctlVars      == <<ctl, awaiting>>
resolverVars == <<mem, disk, tokens, flying, waitingTok, recency>>

---------------------------------------------------------------------------
(* Bounds of the model *)

SubSec == 2         \* clock units per second
MaxPos == 5         \* largest raw position the Snapshot Source reports, units
MaxTick == 1        \* latest start-up time, and clock ticks explored
Capacity == 2       \* memory-tier capacity (500 in the program, scaled down)
NumArtists == 4     \* artists the resolver is asked about
BucketSize == 1     \* RateBudget capacity
MaxAttempt == 7     \* reconnect attempts counted exactly
MaxPending == 1     \* frames buffered while the session is not ready
MaxWire == 2        \* presence frames remembered of the channel
TickMs == 100       \* settings window: step of the time explored, milliseconds
MaxChanges == 3     \* settings window: change events explored
MaxFetch == 1       \* settings window: get_config calls in flight

(* Program constants *)

TTLDays == 30           \* devplan 3.3: TTL 30 days
BackoffStartSecs == 1   \* spec 4.4: backoff starts at 1 s
BackoffCapSecs == 30    \* spec 4.4: capped at 30 s
FingerprintBucketSecs == 5  \* spec 4.2: position bucketed to the nearest 5 s
SaveDelayMs == 300      \* settings.ts: delay of the save timer, milliseconds

TTL == TTLDays * 24 * 3600 * SubSec

Min(a, b) == IF a <= b THEN a ELSE b
Max(a, b) == IF a >= b THEN a ELSE b

---------------------------------------------------------------------------
(* Strings: case folding and the cache key *)

UpperChars == <<"A", "B", "C", "D", "E", "F", "G">>
LowerChars == <<"a", "b", "c", "d", "e", "f", "g">>

\* str::to_lowercase on one character
FoldChar(c) ==
    IF \E i \in 1..Len(UpperChars) : UpperChars[i] = c
    THEN LowerChars[CHOOSE i \in 1..Len(UpperChars) : UpperChars[i] = c]
    ELSE c

ToLowercase(s) == [i \in 1..Len(s) |-> FoldChar(s[i])]

\* format!("{}::{}", artist.to_lowercase(), album.to_lowercase())
CacheKey(artist, album) ==
    ToLowercase(artist) \o <<":", ":">> \o ToLowercase(album)

ArtistPool == << <<"B">>, <<"b">>, <<"D">>, <<"E">>, <<"F">>, <<"G">>, <<"A", "b">> >>
Artists == {ArtistPool[i] : i \in 1..Min(NumArtists, Len(ArtistPool))}
Albums == {<<"C">>, <<"c">>}
Pairs == [artist : Artists, album : Albums]

---------------------------------------------------------------------------
(* Artwork Resolver: the two cache tiers *)

DefaultAsset == "apple_music_logo"
Urls == {"url1", "url2"}
\* what the external search can answer: a URL, or one of the failures
LookupFailures == {"empty", "error", "rate_limited"}
NoEntry == [key |-> <<>>, url |-> DefaultAsset, resolvedAt |-> -1]

\* TTL check: an entry older than 30 days is a miss
Expired(e, t) == t - e.resolvedAt > TTL

MemKeys(m) == {m[i].key : i \in 1..Len(m)}
MemIndex(m, k) ==
    IF k \in MemKeys(m) THEN CHOOSE i \in 1..Len(m) : m[i].key = k ELSE 0
RemoveAt(s, i) == [j \in 1..(Len(s) - 1) |-> IF j < i THEN s[j] ELSE s[j + 1]]
RemoveKey(m, k) == IF MemIndex(m, k) > 0 THEN RemoveAt(m, MemIndex(m, k)) ELSE m

\* a memory-tier hit counts as use: the entry becomes the most recent
TouchNoRefresh(m, i) == m
Touch(m, i) == Append(RemoveAt(m, i), m[i])

\* insert into the memory tier, evicting synchronously once over capacity
MemInsert(m, e) ==
    LET put == Append(RemoveKey(m, e.key), e)
    IN  IF Len(put) > Capacity THEN Tail(put) ELSE put

\* the observer's order of use
Use(r, k) ==
    LET i == IF \E j \in 1..Len(r) : r[j] = k
             THEN CHOOSE j \in 1..Len(r) : r[j] = k ELSE 0
    IN  Append(IF i > 0 THEN RemoveAt(r, i) ELSE r, k)

\* tiers 1 and 2 of the fallback chain: memory, then disk (promoting a hit);
\* an expired entry is dropped where it is found
CacheLookupMemoryOnly(k, t) ==
    LET i == MemIndex(mem, k)
    IN  IF i > 0 /\ ~Expired(mem[i], t)
        THEN [tier |-> "mem", url |-> mem[i].url, mem |-> Touch(mem, i), disk |-> disk]
        ELSE [tier |-> "miss", url |-> DefaultAsset, mem |-> RemoveKey(mem, k),
              disk |-> disk]

CacheLookup(k, t) ==
    LET i == MemIndex(mem, k)
        m1 == RemoveKey(mem, k)
    IN  IF i > 0 /\ ~Expired(mem[i], t)
        THEN [tier |-> "mem", url |-> mem[i].url, mem |-> Touch(mem, i), disk |-> disk]
        ELSE IF disk[k] # NoEntry /\ ~Expired(disk[k], t)
        THEN [tier |-> "disk", url |-> disk[k].url,
              mem |-> MemInsert(m1, disk[k]), disk |-> disk]
        ELSE [tier |-> "miss", url |-> DefaultAsset,
              mem |-> m1, disk |-> [disk EXCEPT ![k] = NoEntry]]

\* resolve(artist, album) up to the external lookup: a hit answers at once;
\* a miss joins the lookup in flight for the key, or issues one if a rate
\* token is available, or waits for a token
ResolveStepNoJoin(k) ==
    LET c == CacheLookup(k, now)
        hit == c.tier # "miss"
        base == [done |-> hit, ref |-> c.url, tier |-> c.tier, issued |-> FALSE,
                 mem |-> c.mem, disk |-> c.disk, tokens |-> tokens,
                 flying |-> flying, waitingTok |-> waitingTok,
                 recency |-> IF hit THEN Use(recency, k) ELSE recency]
    IN  IF hit THEN base
        ELSE IF tokens > 0 /\ flying[k] < 2
        THEN [base EXCEPT !.issued = TRUE, !.tokens = tokens - 1,
                          !.flying = [flying EXCEPT ![k] = @ + 1]]
        ELSE [base EXCEPT !.waitingTok = waitingTok \cup {k}]

ResolveStep(k) ==
    LET c == CacheLookup(k, now)
        hit == c.tier # "miss"
        base == [done |-> hit, ref |-> c.url, tier |-> c.tier, issued |-> FALSE,
                 mem |-> c.mem, disk |-> c.disk, tokens |-> tokens,
                 flying |-> flying, waitingTok |-> waitingTok,
                 recency |-> IF hit THEN Use(recency, k) ELSE recency]
    IN  IF hit THEN base
        ELSE IF flying[k] > 0 \/ k \in waitingTok THEN base
        ELSE IF tokens > 0
        THEN [base EXCEPT !.issued = TRUE, !.tokens = tokens - 1,
                          !.flying = [flying EXCEPT ![k] = @ + 1]]
        ELSE [base EXCEPT !.waitingTok = waitingTok \cup {k}]

\* step 4 of the fallback chain: write-through on success, nothing cached
\* on failure
WriteThroughNegative(k, r) ==
    LET e == [key |-> k, url |-> IF r \in Urls THEN r ELSE DefaultAsset,
              resolvedAt |-> now]
    IN  [ref |-> e.url, mem |-> MemInsert(mem, e),
         disk |-> [disk EXCEPT ![k] = e], recency |-> Use(recency, k)]

WriteThroughMemoryOnly(k, r) ==
    IF r \in Urls
    THEN LET e == [key |-> k, url |-> r, resolvedAt |-> now]
         IN  [ref |-> r, mem |-> MemInsert(mem, e), disk |-> disk,
              recency |-> Use(recency, k)]
    ELSE [ref |-> DefaultAsset, mem |-> mem, disk |-> disk, recency |-> recency]

WriteThrough(k, r) ==
    IF r \in Urls
    THEN LET e == [key |-> k, url |-> r, resolvedAt |-> now]
         IN  [ref |-> r, mem |-> MemInsert(mem, e),
              disk |-> [disk EXCEPT ![k] = e], recency |-> Use(recency, k)]
    ELSE [ref |-> DefaultAsset, mem |-> mem, disk |-> disk, recency |-> recency]

---------------------------------------------------------------------------
(* PlaybackSnapshot, and the Track Poller's comparison *)

Absent == [present |-> FALSE, title |-> "", artist |-> <<>>, album |-> <<>>,
           dur |-> 0, pos |-> 0, playing |-> FALSE]

Tracks ==
    { [title |-> "A", artist |-> <<"B">>, album |-> <<"C">>, dur |-> 200 * SubSec],
      [title |-> "D", artist |-> <<"b">>, album |-> <<"c">>, dur |-> MaxPos - 1] }

\* what the Snapshot Source can return
RawSnapshots ==
    {Absent} \cup
    { [present |-> TRUE, title |-> t.title, artist |-> t.artist, album |-> t.album,
       dur |-> t.dur, pos |-> p, playing |-> b] :
      t \in Tracks, p \in 0..MaxPos, b \in BOOLEAN }

\* positions outside 0..duration are clamped on ingestion
Clamp(s) == IF s.present THEN [s EXCEPT !.pos = Max(0, Min(s.pos, s.dur))] ELSE s

\* position quantized to whole seconds
Quantize(p) == p \div SubSec

\* structural equality of the poll result and the previous one: title,
\* artist, album, isPlaying and the quantized position
SameSnapshot(a, b) ==
    /\ a.present = b.present
    /\ a.present =>
         /\ a.title = b.title
         /\ a.artist = b.artist
         /\ a.album = b.album
         /\ a.playing = b.playing
         /\ Quantize(a.pos) = Quantize(b.pos)

Keys == {CacheKey(p.artist, p.album) : p \in Pairs}
        \cup {CacheKey(t.artist, t.album) : t \in Tracks}

---------------------------------------------------------------------------
(* Fingerprint and frames *)

NoFp == [title |-> "", artist |-> <<>>, album |-> <<>>, bucket |-> -1]

\* position bucketed to the nearest 5 s
Bucket(p) ==
    LET w == FingerprintBucketSecs * SubSec
    IN  ((2 * p + w) \div (2 * w)) * FingerprintBucketSecs

\* track identity plus bucketed position
Fingerprint(s) ==
    [title |-> s.title, artist |-> s.artist, album |-> s.album,
     bucket |-> Bucket(s.pos)]

\* start = now - position, end = start + duration
TimestampsFromDuration(s, t) == [start |-> t - s.pos, end |-> t + s.dur]
Timestamps(s, t) == [start |-> t - s.pos, end |-> (t - s.pos) + s.dur]

HandshakeFrame == [kind |-> "handshake", fp |-> NoFp, start |-> 0, end |-> 0,
                   image |-> ""]
CloseFrame == [kind |-> "close", fp |-> NoFp, start |-> 0, end |-> 0, image |-> ""]
ClearFrame == [kind |-> "clear", fp |-> NoFp, start |-> 0, end |-> 0, image |-> ""]
PausedFrame == [kind |-> "paused", fp |-> NoFp, start |-> 0, end |-> 0, image |-> ""]
ActivityFrame(s, art, t) ==
    [kind |-> "activity", fp |-> Fingerprint(s), start |-> Timestamps(s, t).start,
     end |-> Timestamps(s, t).end, image |-> art]

\* the frame that takes the presence down, per the configured idle behaviour
IdleFrame == IF idleBehavior = "paused" THEN PausedFrame ELSE ClearFrame

---------------------------------------------------------------------------
(* Presence Session: sending.  A session value is [lastFp, pending, wire, tx] *)

Cur == [lastFp |-> lastFp, pending |-> pending, wire |-> wire, tx |-> <<>>]

\* the observer keeps the kind and fingerprint of the last MaxWire presence
\* frames (activity, paused, clear), and whether the connection a frame was
\* sent on was lost before the next one (cut)
Push(w, f) ==
    LET a == Append(w, [kind |-> f.kind, fp |-> f.fp, cut |-> FALSE])
    IN  IF Len(a) > MaxWire THEN Tail(a) ELSE a

Cut(w) == IF w = <<>> THEN w ELSE [w EXCEPT ![Len(w)].cut = TRUE]

\* put a frame on the channel, unless it repeats the last-sent fingerprint
TransmitNoDedupe(S, f) ==
    [S EXCEPT !.wire = Push(@, f), !.tx = Append(@, f),
              !.lastFp = IF f.kind = "activity" THEN f.fp ELSE NoFp]

Transmit(S, f) ==
    IF f.kind = "activity" /\ f.fp = S.lastFp
    THEN S
    ELSE [S EXCEPT !.wire = Push(@, f), !.tx = Append(@, f),
                   !.lastFp = IF f.kind = "activity" THEN f.fp ELSE NoFp]

\* set-activity / clear-activity: sent when the session is ready, buffered
\* until the ready frame otherwise
SubmitUnbuffered(S, f) == Transmit(S, f)

Submit(S, f) ==
    IF ready = "ready" THEN Transmit(S, f)
    ELSE [S EXCEPT !.pending = Append(@, f)]

RECURSIVE Flush(_, _)
Flush(S, q) == IF q = <<>> THEN S ELSE Flush(Transmit(S, Head(q)), Tail(q))

\* room for the one frame a step may submit
CanSubmit == ready = "ready" \/ Len(pending) < MaxPending

---------------------------------------------------------------------------
(* Synchronization Controller.  Results are [ctl, awaiting, S] *)

IdleState == [state |-> "Idle", snap |-> Absent, art |-> DefaultAsset]
ClearedState == [state |-> "Cleared", snap |-> Absent, art |-> DefaultAsset]

\* whether an activity of ours is shown by the service
HasPublishedPlayingOnly == ctl.state = "Playing"

HasPublished ==
    \/ ctl.state = "Playing"
    \/ ctl.state = "Cleared" /\ idleBehavior = "paused"

\* enter Playing with the resolved artwork and push the activity
Publish(s, art, S) ==
    [ctl |-> [state |-> "Playing", snap |-> s, art |-> art],
     awaiting |-> Absent,
     S |-> Submit(S, ActivityFrame(s, art, now))]

\* a change event reporting no track, or a track that is not playing
GoIdleAlwaysClears(S) ==
    [ctl |-> IF ctl.state = "Idle" THEN ctl ELSE ClearedState,
     awaiting |-> Absent, S |-> Submit(S, IdleFrame)]

GoIdle(S) ==
    IF ctl.state = "Playing"
    THEN [ctl |-> ClearedState, awaiting |-> Absent, S |-> Submit(S, IdleFrame)]
    ELSE [ctl |-> ctl, awaiting |-> Absent, S |-> S]

\* the resolver's answer for key k reaches the Controller: it publishes the
\* snapshot it is waiting for, unless a newer event superseded it
DeliverToAnyAwaited(k, ref, S) ==
    IF enabled /\ awaiting.present
    THEN Publish(awaiting, ref, S)
    ELSE [ctl |-> ctl, awaiting |-> awaiting, S |-> S]

Deliver(k, ref, S) ==
    IF enabled /\ awaiting.present /\ CacheKey(awaiting.artist, awaiting.album) = k
    THEN Publish(awaiting, ref, S)
    ELSE [ctl |-> ctl, awaiting |-> awaiting, S |-> S]

\* the session is ready again: the last known Playing state is re-published
RepublishNever(S) == S
Republish(S) ==
    IF enabled /\ ctl.state = "Playing"
    THEN Transmit(S, ActivityFrame(ctl.snap, ctl.art, now))
    ELSE S

---------------------------------------------------------------------------
(* Settings window (settings.ts): the form, and the debounced save.  The    *)
(* value of `settings` is [form, saveTimer, timers, nextId, cfg, fetching,  *)
(* saved, saveCount, age, sinceChange]                                      *)

Digits == <<"0", "1", "2", "3", "4", "5", "6", "7", "8", "9">>

\* String(n) for 0 <= n <= 99, as a sequence of characters
StringOf(n) ==
    IF n < 10 THEN <<Digits[n + 1]>>
    ELSE <<Digits[(n \div 10) + 1], Digits[(n % 10) + 1]>>

DigitValue(c) == CHOOSE d \in 0..9 : Digits[d + 1] = c

\* Number(s) for a string of one or two decimal digits
NumberOf(s) ==
    IF Len(s) = 1 THEN DigitValue(s[1])
    ELSE 10 * DigitValue(s[1]) + DigitValue(s[2])

\* the AppConfig values explored: one checkbox and the slider of the
\* interface vary, the other five fields are carried the same way
PollChoices == {2, 15}
Configs == [showTimestamps : BOOLEAN, pollIntervalSecs : PollChoices]

DefaultConfig == [showTimestamps |-> TRUE, pollIntervalSecs |-> 2]

\* the input elements after populateForm(config)
populateForm(config) ==
    [showTimestamps    |-> config.showTimestamps,
     pollInterval      |-> StringOf(config.pollIntervalSecs),
     pollIntervalValue |-> StringOf(config.pollIntervalSecs) \o <<"s">>]

\* the AppConfig that readForm() builds from the input elements
readForm(form) ==
    [showTimestamps   |-> form.showTimestamps,
     pollIntervalSecs |-> NumberOf(form.pollInterval)]

\* clearTimeout(id): the timer with this handle, if it is still pending, is
\* removed; the handle of a timer that has fired removes nothing
clearTimeout(timers, id) == {t \in timers : t.id # id}

\* setTimeout(callback, SaveDelayMs), returning the handle `id`
setTimeout(timers, id) == timers \cup {[id |-> id, left |-> SaveDelayMs]}

\* scheduleSave without the clearTimeout
scheduleSaveNoClear(st) ==
    [st EXCEPT !.timers = setTimeout(st.timers, st.nextId),
               !.saveTimer = st.nextId,
               !.nextId = st.nextId + 1,
               !.age = 0,
               !.sinceChange = 0]

\* scheduleSave(): saveTimer is null (0) until the first call and keeps the
\* last handle afterwards, also once that timer has fired
scheduleSave(st) ==
    [st EXCEPT !.timers = setTimeout(IF st.saveTimer # 0
                                     THEN clearTimeout(st.timers, st.saveTimer)
                                     ELSE st.timers,
                                     st.nextId),
               !.saveTimer = st.nextId,
               !.nextId = st.nextId + 1,
               !.age = 0,
               !.sinceChange = 0]

NoConfig == [showTimestamps |-> FALSE, pollIntervalSecs |-> 0]

\* the window after DOMContentLoaded: the form shows the configuration, no
\* save has been scheduled
SettingsInit ==
    [form        |-> populateForm(DefaultConfig),
     saveTimer   |-> 0,
     timers      |-> {},
     nextId      |-> 1,
     cfg         |-> DefaultConfig,
     fetching    |-> 0,
     saved       |-> NoConfig,
     saveCount   |-> 0,
     age         |-> SaveDelayMs,
     sinceChange |-> 0]

---------------------------------------------------------------------------
(* Initial state: the application has just started *)

NoAnswer == [key |-> <<>>, ref |-> "", cause |-> ""]

Init ==
    /\ now \in 0..MaxTick
    /\ enabled \in BOOLEAN
    /\ idleBehavior \in {"clear", "paused"}
    /\ outstanding = 0
    /\ lastSnap = Absent
    /\ ctl = IdleState
    /\ awaiting = Absent
    /\ mem = <<>>
    /\ disk = [k \in Keys |-> NoEntry]
    /\ tokens = BucketSize
    /\ flying = [k \in Keys |-> 0]
    /\ waitingTok = {}
    /\ recency = <<>>
    /\ status = "disconnected"
    /\ ready = "closed"
    /\ lastFp = NoFp
    /\ backoff = BackoffStartSecs
    /\ attempt = 0
    /\ pending = <<>>
    /\ wire = <<>>
    /\ tx = <<>>
    /\ answer = NoAnswer
    /\ uiTrack = Absent
    /\ uiStatus = status
    /\ settings = SettingsInit

SetSession(S) ==
    /\ lastFp' = S.lastFp
    /\ pending' = S.pending
    /\ wire' = S.wire
    /\ tx' = S.tx

\* a step of the session that sends nothing
Quiet == tx' = <<>> /\ UNCHANGED <<lastFp, pending, wire>>

\* resolve returns ref for key k to those waiting for it; cause is the tier
\* that answered, the external search's answer, or "timeout"
Answer(k, ref, cause) == [key |-> k, ref |-> ref, cause |-> cause]

---------------------------------------------------------------------------
(* Clock *)

\* the machine sleeps for the length of the TTL, plus d, and wakes
LongSleep(d) ==
    /\ answer' = NoAnswer
    /\ now < TTL
    /\ now' = now + TTL + d
    /\ Quiet
    /\ UNCHANGED <<enabled, idleBehavior, pollerVars, ctlVars, resolverVars,
                   status, ready, backoff, attempt, uiTrack, uiStatus,
                   settings>>

---------------------------------------------------------------------------
(* Track Poller *)

\* the poll timer fires: a tick is skipped while a poll is outstanding
TimerStartsAlways == outstanding + 1
TimerStarts == IF outstanding > 0 THEN outstanding ELSE outstanding + 1

TimerFires ==
    /\ answer' = NoAnswer
    /\ outstanding' = TimerStarts
    /\ Quiet
    /\ UNCHANGED <<now, enabled, idleBehavior, lastSnap, ctlVars, resolverVars,
                   status, ready, backoff, attempt, uiTrack, uiStatus,
                   settings>>

\* the Controller's reaction to a change event
OnChange(s) ==
    IF ~enabled
    THEN /\ Quiet
         /\ answer' = NoAnswer
         /\ UNCHANGED <<ctlVars, resolverVars>>
    ELSE IF s.present /\ s.playing
    THEN \E k \in {CacheKey(s.artist, s.album)} :
         \E r \in {ResolveStep(k)} :
         \E c \in {IF r.done THEN Publish(s, r.ref, Cur)
                    ELSE [ctl |-> ctl, awaiting |-> s, S |-> Cur]} :
             /\ mem' = r.mem
             /\ disk' = r.disk
             /\ tokens' = r.tokens
             /\ flying' = r.flying
             /\ waitingTok' = r.waitingTok
             /\ recency' = r.recency
             /\ ctl' = c.ctl
             /\ awaiting' = c.awaiting
             /\ SetSession(c.S)
             /\ answer' = IF r.done THEN Answer(k, r.ref, r.tier) ELSE NoAnswer
    ELSE \E c \in {GoIdle(Cur)} :
             /\ ctl' = c.ctl
             /\ awaiting' = c.awaiting
             /\ SetSession(c.S)
             /\ answer' = NoAnswer
             /\ UNCHANGED resolverVars

\* the Snapshot Source answers (absent also stands for its failure); a
\* change is emitted as track-changed to the front end and to the Controller.
\* The front end's listener shows the payload and then asks for the
\* connectivity status (get_discord_status) and shows the answer
PollReturns(raw) ==
    /\ outstanding > 0
    /\ CanSubmit
    /\ outstanding' = outstanding - 1
    /\ lastSnap' = Clamp(raw)
    /\ IF SameSnapshot(Clamp(raw), lastSnap)
       THEN /\ Quiet
            /\ answer' = NoAnswer
            /\ UNCHANGED <<ctlVars, resolverVars, uiTrack, uiStatus>>
       ELSE /\ uiTrack' = Clamp(raw)
            /\ uiStatus' = status
            /\ OnChange(Clamp(raw))
    /\ UNCHANGED <<now, enabled, idleBehavior, status, ready, backoff, attempt,
                   settings>>

---------------------------------------------------------------------------
(* Artwork Resolver *)

\* resolve(artist, album) called directly on the resolver
ResolveCall(p) ==
    \E k \in {CacheKey(p.artist, p.album)} :
    \E r \in {ResolveStep(k)} :
        /\ mem' = r.mem
        /\ disk' = r.disk
        /\ tokens' = r.tokens
        /\ flying' = r.flying
        /\ waitingTok' = r.waitingTok
        /\ recency' = r.recency
        /\ answer' = IF r.done THEN Answer(k, r.ref, r.tier) ELSE NoAnswer
        /\ Quiet
        /\ UNCHANGED <<now, enabled, idleBehavior, pollerVars, ctlVars,
                       status, ready, backoff, attempt, uiTrack, uiStatus,
                   settings>>

\* the RateBudget refills
Refill ==
    /\ answer' = NoAnswer
    /\ tokens < BucketSize
    /\ tokens' = tokens + 1
    /\ Quiet
    /\ UNCHANGED <<now, enabled, idleBehavior, pollerVars, ctlVars, mem, disk,
                   flying, waitingTok, recency,
                   status, ready, backoff, attempt, uiTrack, uiStatus,
                   settings>>

\* a deferred lookup gets its token and is issued
TokenGranted(k) ==
    /\ answer' = NoAnswer
    /\ k \in waitingTok
    /\ tokens > 0
    /\ tokens' = tokens - 1
    /\ waitingTok' = waitingTok \ {k}
    /\ flying' = [flying EXCEPT ![k] = @ + 1]
    /\ Quiet
    /\ UNCHANGED <<now, enabled, idleBehavior, pollerVars, ctlVars, mem, disk,
                   recency, status, ready, backoff, attempt, uiTrack, uiStatus,
                   settings>>

\* those waiting on key k get ref: direct callers, and the Controller
Complete(k, ref, cause) ==
    \E c \in {Deliver(k, ref, Cur)} :
        /\ ctl' = c.ctl
        /\ awaiting' = c.awaiting
        /\ SetSession(c.S)
        /\ answer' = Answer(k, ref, cause)

\* the external search answers with r
LookupReturns(k, r) ==
    /\ flying[k] > 0
    /\ CanSubmit
    /\ \E w \in {WriteThrough(k, r)} :
           /\ mem' = w.mem
           /\ disk' = w.disk
           /\ recency' = w.recency
           /\ Complete(k, w.ref, IF r \in Urls THEN "url" ELSE r)
    /\ flying' = [flying EXCEPT ![k] = @ - 1]
    /\ UNCHANGED <<now, enabled, idleBehavior, pollerVars, tokens, waitingTok,
                   status, ready, backoff, attempt, uiTrack, uiStatus,
                   settings>>

\* the per-call timeout elapses, waiting for a token or for the answer:
\* the default asset for this call, nothing cached
ResolveTimeout(k) ==
    /\ k \in waitingTok \/ flying[k] > 0
    /\ CanSubmit
    /\ waitingTok' = waitingTok \ {k}
    /\ flying' = [flying EXCEPT ![k] = 0]
    /\ Complete(k, DefaultAsset, "timeout")
    /\ UNCHANGED <<now, enabled, idleBehavior, pollerVars, mem, disk, tokens,
                   recency, status, ready, backoff, attempt, uiTrack, uiStatus,
                   settings>>

---------------------------------------------------------------------------
(* The enable/disable toggle *)

\* the feature is disabled: the Controller is forced to Idle, the published
\* activity is taken down, lookups in flight or waiting are cancelled; the
\* connection is left as it is
Disable ==
    /\ answer' = NoAnswer
    /\ enabled
    /\ CanSubmit
    /\ enabled' = FALSE
    /\ ctl' = IdleState
    /\ awaiting' = Absent
    /\ flying' = [k \in Keys |-> 0]
    /\ waitingTok' = {}
    /\ \E S \in {IF HasPublished THEN Submit(Cur, ClearFrame) ELSE Cur} :
           SetSession(S)
    /\ UNCHANGED <<now, idleBehavior, pollerVars, mem, disk, tokens, recency,
                   status, ready, backoff, attempt, uiTrack, uiStatus,
                   settings>>

Enable ==
    /\ answer' = NoAnswer
    /\ ~enabled
    /\ enabled' = TRUE
    /\ IF status = "disconnected"
       THEN status' = "connecting" /\ backoff' = BackoffStartSecs /\ attempt' = 1
       ELSE UNCHANGED <<status, backoff, attempt>>
    /\ Quiet
    /\ UNCHANGED <<now, idleBehavior, pollerVars, ctlVars, resolverVars, ready,
                   uiTrack, uiStatus,
                   settings>>

---------------------------------------------------------------------------
(* Presence Session: connection and reconnection *)

\* exponential backoff: the delay doubles after each failure, up to the cap
NextBackoffUncapped(d) == d * 2
NextBackoff(d) == Min(d * 2, BackoffCapSecs)

Count(n) == IF n < MaxAttempt THEN n + 1 ELSE n

\* start-up: the session begins to connect
Connect ==
    /\ answer' = NoAnswer
    /\ enabled
    /\ status = "disconnected"
    /\ status' = "connecting"
    /\ backoff' = BackoffStartSecs
    /\ attempt' = 1
    /\ Quiet
    /\ UNCHANGED <<now, enabled, idleBehavior, pollerVars, ctlVars, resolverVars,
                   ready, uiTrack, uiStatus,
                   settings>>

\* the backoff delay has passed and no endpoint accepts the connection
AttemptFails ==
    /\ answer' = NoAnswer
    /\ enabled
    /\ status = "connecting"
    /\ ready = "closed"
    /\ backoff' = NextBackoff(backoff)
    /\ attempt' = Count(attempt)
    /\ Quiet
    /\ UNCHANGED <<now, enabled, idleBehavior, pollerVars, ctlVars, resolverVars,
                   status, ready, uiTrack, uiStatus,
                   settings>>

\* the backoff delay has passed and an endpoint accepts the connection: the
\* handshake frame is sent at once
AttemptOpens ==
    /\ answer' = NoAnswer
    /\ enabled
    /\ status = "connecting"
    /\ ready = "closed"
    /\ ready' = "handshake"
    /\ tx' = <<HandshakeFrame>>
    /\ UNCHANGED <<now, enabled, idleBehavior, pollerVars, ctlVars, resolverVars,
                   status, lastFp, backoff, attempt, pending, wire, uiTrack, uiStatus,
                   settings>>

\* the channel fails before the ready frame: a failed attempt
HandshakeFails ==
    /\ answer' = NoAnswer
    /\ ready = "handshake"
    /\ ready' = "closed"
    /\ IF enabled
       THEN /\ backoff' = NextBackoff(backoff)
            /\ attempt' = Count(attempt)
            /\ UNCHANGED status
       ELSE /\ status' = "disconnected"
            /\ UNCHANGED <<backoff, attempt>>
    /\ Quiet
    /\ UNCHANGED <<now, enabled, idleBehavior, pollerVars, ctlVars, resolverVars,
                   uiTrack, uiStatus,
                   settings>>

\* the service accepts the handshake (ready frame): buffered frames are
\* sent, then the last known Playing state
ReadyReceived ==
    /\ answer' = NoAnswer
    /\ ready = "handshake"
    /\ ready' = "ready"
    /\ status' = "connected"
    /\ backoff' = BackoffStartSecs
    /\ attempt' = 0
    /\ \E S \in {Republish(Flush([Cur EXCEPT !.pending = <<>>], pending))} :
           SetSession(S)
    /\ UNCHANGED <<now, enabled, idleBehavior, pollerVars, ctlVars, resolverVars,
                   uiTrack, uiStatus,
                   settings>>

\* an I/O error on the established connection: the SessionConnection is
\* destroyed, and rebuilt by the reconnect loop while the feature is enabled
StatusAfterDrop == IF enabled THEN "connecting" ELSE "disconnected"

Drop ==
    /\ answer' = NoAnswer
    /\ ready = "ready"
    /\ ready' = "closed"
    /\ status' = StatusAfterDrop
    /\ lastFp' = NoFp
    /\ backoff' = BackoffStartSecs
    /\ attempt' = IF enabled THEN 1 ELSE 0
    /\ wire' = Cut(wire)
    /\ tx' = <<>>
    /\ UNCHANGED <<now, enabled, idleBehavior, pollerVars, ctlVars, resolverVars,
                   pending, uiTrack, uiStatus,
                   settings>>

---------------------------------------------------------------------------
(* Settings window: events *)

engineVars == <<now, enabled, idleBehavior, outstanding, lastSnap, ctl,
                awaiting, mem, disk, tokens, flying, waitingTok, recency,
                status, ready, lastFp, backoff, attempt, pending, wire, tx,
                answer, uiTrack, uiStatus>>

\* the slider is moved: its "input" listener rewrites the label, and nothing
\* is scheduled
SliderInput(v) ==
    /\ StringOf(v) # settings.form.pollInterval
    /\ settings' = [settings EXCEPT
                        !.form.pollInterval = StringOf(v),
                        !.form.pollIntervalValue = StringOf(v) \o <<"s">>]
    /\ UNCHANGED engineVars

\* the slider is released: its "change" listener is scheduleSave
SliderChange ==
    /\ settings.nextId <= MaxChanges
    /\ settings' = scheduleSave(settings)
    /\ UNCHANGED engineVars

\* a checkbox is clicked: it toggles, and its "change" listener is
\* scheduleSave
CheckboxChange ==
    /\ settings.nextId <= MaxChanges
    /\ settings' = scheduleSave(
           [settings EXCEPT !.form.showTimestamps = ~settings.form.showTimestamps])
    /\ UNCHANGED engineVars

\* d milliseconds pass without an event; no pending timer is overrun
Elapse(d) ==
    /\ d > 0
    /\ \A t \in settings.timers : t.left >= d
    /\ settings' = [settings EXCEPT
                        !.timers = {[t EXCEPT !.left = t.left - d] :
                                        t \in settings.timers},
                        !.age = Min(settings.age + d, SaveDelayMs)]
    /\ UNCHANGED engineVars

\* a timer is due: its callback reads the form and invokes save_config,
\* which stores the configuration in the backend
TimerExpires ==
    \E t \in settings.timers :
        /\ t.left = 0
        /\ settings' = [settings EXCEPT
                            !.timers = settings.timers \ {t},
                            !.saved = readForm(settings.form),
                            !.saveCount = settings.saveCount + 1,
                            !.sinceChange = settings.sinceChange + 1,
                            !.cfg = readForm(settings.form)]
        /\ UNCHANGED engineVars

\* the configuration changes outside the window (the tray toggle) and the
\* backend emits config-changed: the listener asks for get_config
ConfigChanged(c) ==
    /\ c # settings.cfg
    /\ settings.fetching < MaxFetch
    /\ settings' = [settings EXCEPT !.cfg = c,
                                    !.fetching = settings.fetching + 1]
    /\ UNCHANGED engineVars

\* get_config answers and the listener repopulates the form
ConfigFetched ==
    /\ settings.fetching > 0
    /\ settings' = [settings EXCEPT !.form = populateForm(settings.cfg),
                                    !.fetching = settings.fetching - 1]
    /\ UNCHANGED engineVars

---------------------------------------------------------------------------
(* Process shutdown *)

\* the process shuts down: lookups in flight or waiting are cancelled and the
\* connection, if there is one, is closed with a close frame.  What is left
\* is what the next start finds: the disk tier and the configuration
Shutdown ==
    /\ answer' = NoAnswer
    /\ outstanding' = 0
    /\ lastSnap' = Absent
    /\ ctl' = IdleState
    /\ awaiting' = Absent
    /\ mem' = <<>>
    /\ recency' = <<>>
    /\ tokens' = BucketSize
    /\ flying' = [k \in Keys |-> 0]
    /\ waitingTok' = {}
    /\ status' = "disconnected"
    /\ ready' = "closed"
    /\ lastFp' = NoFp
    /\ backoff' = BackoffStartSecs
    /\ attempt' = 0
    /\ pending' = <<>>
    /\ wire' = Cut(wire)
    /\ tx' = IF ready # "closed" THEN <<CloseFrame>> ELSE <<>>
    /\ uiTrack' = Absent
    /\ uiStatus' = "disconnected"
    /\ UNCHANGED <<now, enabled, idleBehavior, disk, settings>>

---------------------------------------------------------------------------
(* Specifications *)

\* the Snapshot Source of the whole-engine runs: each track at the start, one
\* second in, and at the largest position; paused at the start; or absent
EngineSnapshots ==
    {s \in RawSnapshots :
        s.present => \/ s.playing /\ s.pos \in {0, SubSec, MaxPos}
                     \/ ~s.playing /\ s.pos = 0}

\* the external search of the whole-engine runs: one URL, or nothing found
EngineAnswers == {"url1", "empty"}

\* the whole engine, driven by the Snapshot Source, with a presence service
\* that accepts every connection attempt
Next ==
    \/ TimerFires
    \/ \E raw \in EngineSnapshots : PollReturns(raw)
    \/ Refill
    \/ \E k \in Keys : TokenGranted(k)
    \/ \E k \in Keys, r \in EngineAnswers : LookupReturns(k, r)
    \/ \E k \in Keys : ResolveTimeout(k)
    \/ Disable
    \/ Enable
    \/ Connect
    \/ AttemptOpens
    \/ ReadyReceived
    \/ Drop

Spec == Init /\ [][Next]_vars

\* the Artwork Resolver alone, called directly
NextCache ==
    \/ \E d \in 0..1 : LongSleep(d)
    \/ \E p \in Pairs : ResolveCall(p)
    \/ Refill
    \/ \E k \in Keys : TokenGranted(k)
    \/ \E k \in Keys, r \in Urls \cup LookupFailures : LookupReturns(k, r)
    \/ \E k \in Keys : ResolveTimeout(k)

SpecCache == Init /\ [][NextCache]_vars

\* the Track Poller against every snapshot the source can return
NextPoller ==
    \/ TimerFires
    \/ \E raw \in RawSnapshots : PollReturns(raw)
    \/ Disable
    \/ Enable

SpecPoller == Init /\ [][NextPoller]_vars

\* the Presence Session against a service that may refuse or fail, with an
\* external search that never answers in time
NextSession ==
    \/ TimerFires
    \/ \E raw \in {s \in EngineSnapshots : s.pos = 0} : PollReturns(raw)
    \/ \E k \in Keys : ResolveTimeout(k)
    \/ Disable
    \/ Enable
    \/ Connect
    \/ AttemptFails
    \/ AttemptOpens
    \/ HandshakeFails
    \/ ReadyReceived
    \/ Drop

SpecSession == Init /\ [][NextSession]_vars

\* two tracks of different albums, each from its start, or nothing playing
TwoAlbumSnapshots ==
    {Absent} \cup
    { [present |-> TRUE, title |-> tr.title, artist |-> tr.artist,
       album |-> tr.album, dur |-> 200 * SubSec, pos |-> 0, playing |-> TRUE] :
      tr \in { [title |-> "A", artist |-> <<"B">>, album |-> <<"C">>],
               [title |-> "E", artist |-> <<"D">>, album |-> <<"C">>] } }

\* an external search whose answer tells the key it was asked for
SearchResult(k) == IF k = <<"b", ":", ":", "c">> THEN "url1" ELSE "url2"

\* the engine with slow lookups and tracks of different albums
NextSupersede ==
    \/ TimerFires
    \/ \E raw \in TwoAlbumSnapshots : PollReturns(raw)
    \/ Refill
    \/ \E k \in Keys : TokenGranted(k)
    \/ \E k \in Keys : LookupReturns(k, SearchResult(k))
    \/ \E k \in Keys : ResolveTimeout(k)
    \/ Disable
    \/ Enable
    \/ Connect
    \/ AttemptOpens
    \/ ReadyReceived

SpecSupersede == Init /\ [][NextSupersede]_vars

\* the front end beside a running engine: one track that plays from its
\* start, or nothing; the timer keeps firing, the Snapshot Source keeps
\* answering and the session keeps trying to connect
UiSnapshots == {s \in EngineSnapshots : s.present => s.title = "A" /\ s.pos = 0}

NextUi ==
    \/ TimerFires
    \/ \E raw \in UiSnapshots : PollReturns(raw)
    \/ Disable
    \/ Enable
    \/ Connect
    \/ AttemptOpens
    \/ ReadyReceived
    \/ Drop

FairSpecUi ==
    /\ Init
    /\ [][NextUi]_vars
    /\ WF_vars(TimerFires)
    /\ WF_vars(\E raw \in UiSnapshots : PollReturns(raw))
    /\ WF_vars(Connect)
    /\ WF_vars(AttemptOpens)
    /\ WF_vars(ReadyReceived)

\* the engine through disables, connection losses and shutdowns
NextLifecycle ==
    \/ TimerFires
    \/ \E raw \in UiSnapshots : PollReturns(raw)
    \/ \E k \in Keys : LookupReturns(k, SearchResult(k))
    \/ \E k \in Keys : ResolveTimeout(k)
    \/ Disable
    \/ Enable
    \/ Connect
    \/ AttemptOpens
    \/ ReadyReceived
    \/ Drop
    \/ Shutdown

SpecLifecycle == Init /\ [][NextLifecycle]_vars

\* the settings window alone: the engine stands still
NextSettings ==
    \/ \E v \in PollChoices : SliderInput(v)
    \/ SliderChange
    \/ CheckboxChange
    \/ \E d \in {TickMs, 2 * TickMs} \cup {t.left : t \in settings.timers} :
           Elapse(d)
    \/ TimerExpires
    \/ \E c \in Configs : ConfigChanged(c)
    \/ ConfigFetched

SpecSettings == Init /\ [][NextSettings]_vars


---------------------------------------------------------------------------
(* Properties of the Artwork Resolver, checked under SpecCache *)

Cached(k) == disk[k] # NoEntry \/ k \in MemKeys(mem)
Failed == answer # NoAnswer /\ answer.cause \in LookupFailures \cup {"timeout"}

\* C8: resolve never fails: it answers a URL or the default asset; when the
\* external lookup errors, is rate-limited, finds nothing or times out
\* (waiting for a token or for the answer) it answers the default asset,
\* neither tier holds an entry for the key afterwards, and the next resolve
\* for the key goes to the external search again (at once, or as soon as a
\* rate token is there)
C8_FailureNotCached ==
    /\ answer # NoAnswer => answer.ref \in Urls \cup {DefaultAsset}
    /\ Failed =>
         /\ answer.ref = DefaultAsset
         /\ ~Cached(answer.key)
         /\ LET r == ResolveStep(answer.key)
            IN  /\ ~r.done
                /\ IF tokens > 0
                   THEN r.issued /\ r.flying[answer.key] = 1
                   ELSE answer.key \in r.waitingTok

C8_Witness == Failed /\ answer.cause = "empty" /\ tokens > 0 /\ mem # <<>>

\* C9: while the disk tier holds an unexpired entry for a key, every resolve
\* for the key returns that entry's URL from a cache tier, no external lookup
\* for the key is issued or queued, and the entry stays as it is, whatever
\* happens to the memory tier
C9_CacheRoundTrip ==
    [][\A k \in Keys :
         (disk[k] # NoEntry /\ ~Expired(disk[k], now')) =>
            /\ disk'[k] = disk[k]
            /\ flying'[k] <= flying[k]
            /\ k \in waitingTok' => k \in waitingTok
            /\ (answer' # NoAnswer /\ answer'.key = k) =>
                 /\ answer'.ref = disk[k].url
                 /\ answer'.cause \in {"mem", "disk"}]_vars

\* the disk tier answers for a key that was evicted from the memory tier
C9_Witness ==
    /\ answer # NoAnswer
    /\ answer.cause = "disk"
    /\ Len(recency) > Capacity
    /\ answer.ref \in Urls

Before(r, x, y) ==
    \E i, j \in 1..Len(r) : i < j /\ r[i] = x /\ r[j] = y

\* keys that leave the memory tier in a step although their entry is not expired
Evicted ==
    {x \in MemKeys(mem) \ MemKeys(mem') : ~Expired(mem[MemIndex(mem, x)], now)}

\* C10: the memory tier never holds more than Capacity entries, and a key is
\* evicted only by an insert into the full tier, which leaves it full, and
\* the key evicted is the least recently used one (hits count as use)
C10_BoundedLRU ==
    [][/\ Len(mem') <= Capacity
       /\ Cardinality(MemKeys(mem')) = Len(mem')
       /\ \A x \in Evicted :
            /\ Len(mem) = Capacity
            /\ Len(mem') = Capacity
            /\ \A y \in MemKeys(mem) \ {x} : Before(recency, x, y)]_vars

\* Capacity + 1 distinct keys were used, the tier is full and the least
\* recently used of them is gone
C10_Witness ==
    /\ Len(recency) = Capacity + 1
    /\ Len(mem) = Capacity
    /\ recency[1] \notin MemKeys(mem)
    /\ \A i \in 1..Capacity : mem[i].key = recency[i + 1]

---------------------------------------------------------------------------
(* Properties of the Track Poller, checked under SpecPoller *)

Abs(x) == IF x < 0 THEN -x ELSE x

\* a step in which the Snapshot Source answers
PollStep == outstanding' = outstanding - 1

\* a step in which the Track Poller emits a change event
ChangeEvent == uiTrack' # uiTrack

\* two consecutive poll results for the same track and play state
SameButPosition(a, b) ==
    /\ a.present /\ b.present
    /\ a.title = b.title
    /\ a.artist = b.artist
    /\ a.album = b.album
    /\ a.playing = b.playing

\* C2: when two consecutive snapshots are equal in title, artist, album and
\* isPlaying and their positions differ by less than one second, no change
\* event is emitted for the second one
C2_NoEventWithinOneSecond ==
    [][(PollStep /\ SameButPosition(lastSnap, lastSnap')
          /\ Abs(lastSnap'.pos - lastSnap.pos) < SubSec)
       => ~ChangeEvent]_vars

\* C3: at most one Snapshot Source call is outstanding; while one is
\* outstanding a timer tick starts no other and queues none, and once it has
\* returned the next timer tick starts a poll
C3_AtMostOneOutstanding ==
    /\ outstanding \in {0, 1}
    /\ outstanding = 1 => ~ENABLED (TimerFires /\ outstanding' # 1)
    /\ outstanding = 0 => ENABLED (TimerFires /\ outstanding' = 1)

\* a poll is outstanding after an earlier one returned, and the timer can fire
C3_Witness ==
    /\ outstanding = 1
    /\ lastSnap.present
    /\ ENABLED TimerFires

---------------------------------------------------------------------------
(* Properties of the Presence Session's reconnection, checked under        *)
(* SpecSession                                                             *)

RECURSIVE Pow2(_)
Pow2(n) == IF n <= 0 THEN 1 ELSE 2 * Pow2(n - 1)

\* steps of the session, told by the channel's phase
DropStep == ready = "ready" /\ ready' = "closed"
ReadyStep == ready = "handshake" /\ ready' = "ready"

\* C6: when the connection drops while the feature is enabled the status
\* becomes "connecting" and the delay starts again at 1 s; the delay before
\* the n-th consecutive attempt is min(2^(n-1), 30) s and never above 30 s;
\* while enabled the session keeps trying (it does not fall back to
\* "disconnected"); and the status is "connected" as soon as the ready frame
\* arrives
C6_BackoffSchedule ==
    [][/\ (DropStep /\ enabled) =>
             /\ status' = "connecting"
             /\ backoff' = BackoffStartSecs
             /\ attempt' = 1
       /\ (attempt' >= 1 /\ attempt' < MaxAttempt) =>
             backoff' = Min(Pow2(attempt' - 1) * BackoffStartSecs, BackoffCapSecs)
       /\ backoff' \in BackoffStartSecs..BackoffCapSecs
       /\ (enabled' /\ attempt' >= 1) => status' = "connecting"
       /\ ReadyStep => status' = "connected"]_vars

\* after a drop, the sixth attempt in a row is waited for, at the cap
C6_Witness ==
    /\ status = "connecting"
    /\ enabled
    /\ attempt = 6
    /\ backoff = BackoffCapSecs
    /\ wire # <<>>
    /\ wire[Len(wire)].cut

---------------------------------------------------------------------------
(* Properties of the whole engine, checked under Spec *)

\* two activity frames in a row with the same fingerprint, at i and i + 1
Repeated(w, i) ==
    /\ w[i].kind = "activity"
    /\ w[i + 1].kind = "activity"
    /\ w[i].fp = w[i + 1].fp

\* C1 as stated: the session never sends two activity frames with the same
\* fingerprint without a frame of another fingerprint or a clear frame
\* between them, disconnects and reconnects included
C1_NeverTwiceInARow ==
    \A i \in 1..(Len(wire) - 1) : ~Repeated(wire, i)

\* C1: on one connection the session never sends two activity frames with
\* the same fingerprint in a row: when it does send two in a row, the
\* connection of the first was lost before the second was sent, and the
\* fingerprint remembered is that of the last activity frame of the
\* connection, if that was the last frame sent on it
C1_IdempotentPerConnection ==
    /\ \A i \in 1..(Len(wire) - 1) : Repeated(wire, i) => wire[i].cut
    /\ (lastFp # NoFp) =>
         /\ ready = "ready"
         /\ wire # <<>>
         /\ wire[Len(wire)] = [kind |-> "activity", fp |-> lastFp, cut |-> FALSE]

\* the fingerprint just sent is swallowed when it is published again: the
\* Controller is Playing a snapshot whose fingerprint is the one last sent,
\* after a change event that sent nothing
C1_Witness ==
    /\ ready = "ready"
    /\ ctl.state = "Playing"
    /\ uiTrack = ctl.snap
    /\ uiTrack.pos = SubSec
    /\ lastFp = Fingerprint(ctl.snap)
    /\ answer # NoAnswer
    /\ tx = <<>>
    /\ wire # <<>>
    /\ ~wire[Len(wire)].cut

\* the one activity frame of snapshot s published at time t, as framed
FrameOf(s, art, t) ==
    [kind |-> "activity", fp |-> Fingerprint(s), start |-> t - s.pos,
     end |-> (t - s.pos) + s.dur, image |-> art]

\* resolve has returned in this step for the snapshot s the Controller
\* publishes: at once for the snapshot of a change event, or later for the
\* snapshot it is waiting with
Published(s) ==
    /\ enabled
    /\ s.present /\ s.playing
    /\ answer' # NoAnswer
    /\ answer'.key = ToLowercase(s.artist) \o <<":", ":">> \o ToLowercase(s.album)
    /\ \/ PollStep /\ ChangeEvent /\ s = uiTrack'
       \/ ~PollStep /\ s = awaiting

C5_OneClearFrame ==
    [][(PollStep /\ ~lastSnap'.present) =>
          IF ctl.state = "Playing" /\ ChangeEvent
          THEN /\ ctl'.state = "Cleared"
               /\ IF ready = "ready"
                  THEN tx' = <<IdleFrame>> /\ pending' = pending
                  ELSE tx' = <<>> /\ pending' = Append(pending, IdleFrame)
          ELSE /\ tx' = <<>>
               /\ pending' = pending
               /\ ctl' = ctl]_vars

\* the paused frame has just been sent for a player that went away
C5_Witness ==
    /\ ~lastSnap.present
    /\ ctl.state = "Cleared"
    /\ tx = <<PausedFrame>>
    /\ Len(wire) = 2
    /\ wire[1].kind = "activity"
    /\ wire[2].kind = "paused"

\* C7: when the ready frame arrives and the Controller is enabled and
\* Playing, the session sends in that very step, with no change event, an
\* activity frame with the fingerprint of the Controller's snapshot, as the
\* last frame of the step; the new connection starts with no fingerprint
\* remembered, and remembers this one afterwards
C7_RepublishOnReconnect ==
    [][/\ (ReadyStep /\ enabled /\ ctl.state = "Playing") =>
            /\ lastFp = NoFp
            /\ tx' # <<>>
            /\ tx'[Len(tx')].kind = "activity"
            /\ tx'[Len(tx')].fp = Fingerprint(ctl.snap)
            /\ pending = <<>> => tx' = <<FrameOf(ctl.snap, ctl.art, now)>>
            /\ lastFp' = Fingerprint(ctl.snap)
            /\ ctl' = ctl
            /\ ~ChangeEvent
       /\ DropStep => lastFp' = NoFp]_vars

\* the activity sent on the lost connection has been sent again on the new
\* one, with nothing buffered and no poll in between
C7_Witness ==
    /\ status = "connected"
    /\ ctl.state = "Playing"
    /\ tx = <<FrameOf(ctl.snap, ctl.art, now)>>
    /\ Len(wire) = 2
    /\ Repeated(wire, 1)
    /\ wire[1].cut

---------------------------------------------------------------------------
(* Single flight of the external lookup, checked under SpecCache *)

\* a lookup for key k is in flight or waits for its rate token
Underway(k) == flying[k] > 0 \/ k \in waitingTok

\* C11: at most one external lookup is in flight per cache key, and none is
\* in flight while one for the key still waits for its token; a resolve for
\* a key whose lookup is underway issues no lookup, takes no token and
\* queues nothing: it waits, and the lookup's completion answers for the key
C11_SingleFlight ==
    /\ \A k \in Keys :
         /\ flying[k] \in {0, 1}
         /\ flying[k] = 1 => k \notin waitingTok
         /\ Underway(k) =>
              LET r == ResolveStep(k)
              IN  /\ ~r.done
                  /\ ~r.issued
                  /\ r.flying = flying
                  /\ r.tokens = tokens
                  /\ r.waitingTok = waitingTok
    /\ (answer # NoAnswer /\ answer.cause \notin {"mem", "disk"}) =>
          ~Underway(answer.key)

\* a lookup is in flight for one key while a rate token is free, so that a
\* second resolve for the key could have issued another, and a lookup for
\* another key is in flight as well
C11_Witness ==
    /\ tokens > 0
    /\ \E k1, k2 \in Keys : k1 # k2 /\ flying[k1] = 1 /\ flying[k2] = 1

---------------------------------------------------------------------------
(* The enable/disable toggle, checked under Spec *)

\* steps of the toggle
DisableStep == enabled /\ ~enabled'
EnableStep == ~enabled /\ enabled'

---------------------------------------------------------------------------
(* The front end's connectivity display, checked under FairSpecUi *)

\* C13: after every change of the connectivity status the front end
\* eventually shows the session's current status, also when no track change
\* comes with it
C13_UiShowsStatus == (uiStatus # status) ~> (uiStatus = status)

---------------------------------------------------------------------------
(* Superseded resolutions, checked under SpecSupersede *)

KeyOf(s) == ToLowercase(s.artist) \o <<":", ":">> \o ToLowercase(s.album)

\* artwork that belongs to the album of snapshot s
ArtFits(s, art) == art \in {DefaultAsset, SearchResult(KeyOf(s))}

\* a lookup or a timeout answers in this step, outside a poll
CompleteStep == answer' # NoAnswer /\ ~PollStep

\* C14: a resolution outstanding never blocks the poller; a change event
\* makes the Controller wait for the new snapshot only, or for none; when a
\* resolution completes for a key that is not the key of the snapshot
\* awaited, nothing is published and the Controller stays as it is; an
\* activity frame published outside the flush of the buffer is for the
\* snapshot of the latest change event; and the Playing state and every
\* activity frame pair a track with its own album's artwork or the default
C14_FreshPollSupersedes ==
    /\ [](/\ (awaiting.present /\ outstanding = 0) =>
                ENABLED (TimerFires /\ outstanding' = 1)
          /\ (awaiting.present /\ outstanding = 1 /\ CanSubmit) =>
                \A raw \in TwoAlbumSnapshots : ENABLED PollReturns(raw)
          /\ awaiting.present => awaiting = uiTrack
          /\ ctl.state = "Playing" => ArtFits(ctl.snap, ctl.art)
          /\ \A i \in 1..Len(tx) :
               tx[i].kind = "activity" => ArtFits(tx[i].fp, tx[i].image))
    /\ [][/\ (CompleteStep /\ (~awaiting.present \/ KeyOf(awaiting) # answer'.key)) =>
               /\ tx' = <<>>
               /\ pending' = pending
               /\ ctl' = ctl
               /\ awaiting' = awaiting
          /\ ~ReadyStep =>
               \A i \in 1..Len(tx') :
                  tx'[i].kind = "activity" =>
                     tx'[i] = FrameOf(uiTrack', tx'[i].image, now)]_vars

\* the lookup for the older track has answered with its artwork while the
\* Controller, on a ready session, waits for the newer track's: nothing was
\* sent
C14_Witness ==
    /\ answer # NoAnswer
    /\ answer.cause = "url"
    /\ awaiting.present
    /\ KeyOf(awaiting) # answer.key
    /\ ready = "ready"
    /\ tx = <<>>
    /\ ctl.state = "Idle"

---------------------------------------------------------------------------
(* Buffering until the ready frame, checked under Spec *)

IsPrefix(p, q) == Len(p) <= Len(q) /\ SubSeq(q, 1, Len(p)) = p

\* C15: on a connection that has not received its ready frame nothing but
\* the handshake frame is transmitted; an activity published meanwhile is
\* appended to the buffer; the buffer loses nothing until the ready frame
\* arrives; and in that step it is emptied onto the channel in order, every
\* frame of it being transmitted unless it repeats the fingerprint of the
\* activity frame buffered just before it
C15_BufferedUntilReady ==
    [][/\ (ready # "ready" /\ ~ReadyStep) =>
            /\ \A i \in 1..Len(tx') : tx'[i] = HandshakeFrame
            /\ wire' = wire
            /\ lastFp' = NoFp
       /\ ~ReadyStep => IsPrefix(pending, pending')
       /\ \A s \in RawSnapshots :
            (Published(s) /\ ready # "ready") =>
               pending' = Append(pending, FrameOf(s, answer'.ref, now))
       /\ ReadyStep =>
            /\ pending' = <<>>
            /\ \A i \in 1..Len(pending) :
                 \/ \E j \in 1..Len(tx') :
                      /\ tx'[j] = pending[i]
                      /\ \A i2 \in 1..(i - 1), j2 \in 1..Len(tx') :
                           tx'[j2] = pending[i2] => j2 <= j
                 \/ /\ i > 1
                    /\ pending[i].kind = "activity"
                    /\ pending[i - 1].kind = "activity"
                    /\ pending[i].fp = pending[i - 1].fp]_vars

\* the ready frame has just arrived and the activity buffered during the
\* handshake has gone out as the first presence frame of the session
C15_Witness ==
    /\ ready = "ready"
    /\ status = "connected"
    /\ answer = NoAnswer
    /\ pending = <<>>
    /\ Len(tx) = 1
    /\ tx[1].kind = "activity"
    /\ tx[1].start = now - SubSec
    /\ wire = << [kind |-> "activity", fp |-> tx[1].fp, cut |-> FALSE] >>

---------------------------------------------------------------------------
(* Cancellation, checked under SpecLifecycle *)

\* a shutdown that finds a connection
CloseStep == tx' = <<CloseFrame>>

NothingUnderway == \A k \in Keys : flying[k] = 0 /\ k \notin waitingTok

\* every entry is whole and every memory-tier entry is on disk as well
EntriesWhole ==
    /\ \A k \in Keys :
         disk[k] # NoEntry =>
            /\ disk[k].key = k
            /\ disk[k].url \in Urls
            /\ disk[k].resolvedAt \in 0..now
    /\ \A i \in 1..Len(mem) : disk[mem[i].key] = mem[i]

---------------------------------------------------------------------------
(* The settings window's debounced save, checked under SpecSettings *)

\* a change event ran scheduleSave in this step
ScheduleStep == settings'.nextId = settings.nextId + 1

\* save_config was invoked in this step
SaveStep == settings'.saveCount = settings.saveCount + 1

\* the config-changed listener repopulated the form in this step
RepopulateStep == settings'.fetching < settings.fetching

\* at most one save timer is pending, it is the one saveTimer names, it is
\* due SaveDelayMs after the last change event, and since the last change
\* event save_config was invoked once if no timer is pending and not at all
\* if one is
OneTimer ==
    /\ Cardinality(settings.timers) <= 1
    /\ \A t \in settings.timers :
           /\ t.id = settings.saveTimer
           /\ t.left + settings.age = SaveDelayMs
           /\ settings.sinceChange = 0
    /\ (settings.timers = {} /\ settings.saveTimer # 0)
           => settings.sinceChange = 1
    /\ settings.saveCount <= settings.nextId - 1

\* C17: at most one save timer is pending at any time: every change event on
\* an input cancels the pending timer and starts a new one of 300 ms, so a
\* burst of change events less than 300 ms apart produces exactly one
\* save_config call, issued 300 ms after the last change and carrying the
\* form's values as read when the timer fires; a config-changed event
\* repopulates the form from get_config and schedules no save
C17_DebouncedSave ==
    /\ []OneTimer
    /\ [][/\ ScheduleStep =>
                settings'.timers = {[id |-> settings'.saveTimer,
                                     left |-> SaveDelayMs]}
          /\ SaveStep =>
                /\ settings.age = SaveDelayMs
                /\ settings.sinceChange = 0
                /\ settings'.saved = readForm(settings.form)
                /\ settings'.form = settings.form
                /\ settings'.timers = {}
          /\ RepopulateStep =>
                /\ settings'.form = populateForm(settings.cfg)
                /\ readForm(settings'.form) = settings.cfg
                /\ settings'.timers = settings.timers
                /\ settings'.saveTimer = settings.saveTimer
                /\ settings'.saveCount = settings.saveCount
          /\ (settings'.saveCount # settings.saveCount) => SaveStep
         ]_vars

\* all the change events explored came in one burst and were followed by one
\* save_config call, which carried the form as it stood when the timer fired
\* (the slider moved to 15); no get_config call is left unanswered
C17_Witness ==
    /\ settings.nextId = MaxChanges + 1
    /\ settings.saveCount = 1
    /\ settings.sinceChange = 1
    /\ settings.timers = {}
    /\ settings.saved = readForm(settings.form)
    /\ settings.saved.pollIntervalSecs = 15
    /\ settings.fetching = 0
    /\ settings.cfg = settings.saved

=============================================================================
